---------------------------- MODULE Spec2Model ----------------------------
(***************************************************************************)
(* Channel vocoder audio effect (src/src/dsp/vocoder.c): the instance      *)
(* structure, the v2 API handlers and the DSP helpers as a state machine.  *)
(*                                                                         *)
(* Number representation                                                   *)
(*   - stored parameters and atof() results: integers in thousandths       *)
(*     (freq_low = 100.0 Hz is 100000);                                    *)
(*   - audio samples, filter/envelope state and derived coefficients:      *)
(*     Q15 fixed point (1.0f is 2^15), so int16/32768.0f is the sample     *)
(*     itself;                                                             *)
(*   - NaN, +inf and -inf are the sentinels NaN, PosInf, NegInf.           *)
(* Float products and the libm calls are fixed-point approximations; the   *)
(* dry path (x * 1.0f, x / 32768.0f, x * 32767.0f) is exact.               *)
(***************************************************************************)
EXTENDS Integers, Sequences, FiniteSets

(* ------------------------------------------------------------------ *)
(* Program constants                                                    *)
(* ------------------------------------------------------------------ *)
SAMPLE_RATE == 44100
MAX_BANDS == 32
NULL == "NULL"

Q15 == 2^15
Milli == 10^3

NaN == 2 * 10^9 + 1
PosInf == 2 * 10^9
NegInf == -(2 * 10^9)
INT_MAX == 2147483647
INT_MIN == -INT_MAX

(* ------------------------------------------------------------------ *)
(* float arithmetic                                                     *)
(* ------------------------------------------------------------------ *)
Abs(x) == IF x < 0 THEN -x ELSE x
Sign(x) == IF x < 0 THEN -1 ELSE 1

\* C division of integers: the quotient truncated toward zero
TruncDiv(a, b) == Sign(a) * Sign(b) * (Abs(a) \div Abs(b))

IsNaN(x) == x = NaN

\* a * b for Q15 operands, the product kept inside 31 bits
Mul15(a, b) ==
    LET x == Abs(a)
        y == Abs(b)
    IN  Sign(a) * Sign(b) *
          (((x * (y \div 2^8)) \div 2^7) + ((x * (y % 2^8)) \div Q15))

FAdd(a, b) == IF IsNaN(a) \/ IsNaN(b) THEN NaN ELSE a + b
FSub(a, b) == IF IsNaN(a) \/ IsNaN(b) THEN NaN ELSE a - b
FMul(a, b) == IF IsNaN(a) \/ IsNaN(b) THEN NaN ELSE Mul15(a, b)
\* a comparison with a NaN operand is false
FLt(a, b) == ~IsNaN(a) /\ ~IsNaN(b) /\ a < b
FGt(a, b) == ~IsNaN(a) /\ ~IsNaN(b) /\ a > b
fabsf(x) == IF IsNaN(x) THEN NaN ELSE Abs(x)

\* a stored parameter (thousandths) read into a Q15 float operand
ToQ15(p) == IF IsNaN(p) THEN NaN ELSE TruncDiv(p * Q15, Milli)

(* ------------------------------------------------------------------ *)
(* libm: logf, expf, sinf, sqrtf on Q15 operands                        *)
(* ------------------------------------------------------------------ *)
\* ln 2 and M_PI in Q15
LN2 == 22713
M_PI == 102944

RECURSIVE FloorLog2(_, _)
\* the e with unit * 2^e <= k < unit * 2^(e+1), for k >= unit
FloorLog2(k, unit) == IF k < 2 * unit THEN 0 ELSE 1 + FloorLog2(k \div 2, unit)

\* logf of a value given in thousandths (>= 1.0), result in Q15
logf(k) ==
    IF IsNaN(k) THEN NaN
    ELSE LET e  == FloorLog2(k, Milli)
             m  == (k * 2^(15 - e)) \div Milli
             z  == ((m - Q15) * Q15) \div (m + Q15)
             z2 == Mul15(z, z)
             z3 == Mul15(z, z2)
             z5 == Mul15(z3, z2)
             z7 == Mul15(z5, z2)
             z9 == Mul15(z7, z2)
         IN  e * LN2 + 2 * (z + z3 \div 3 + z5 \div 5 + z7 \div 7 + z9 \div 9)

RECURSIVE ExpSeries(_, _, _, _)
\* sum of r^j / j! for j = n .. 8, term is r^(n-1)/(n-1)!
ExpSeries(r, term, n, acc) ==
    IF n > 8 THEN acc
    ELSE LET t == Mul15(term, r) \div n
         IN  ExpSeries(r, t, n + 1, acc + t)

\* expf of a Q15 operand y >= 0, result in Q15
ExpPos(y) ==
    LET k == y \div LN2
        r == y - k * LN2
    IN  ExpSeries(r, Q15, 1, Q15) * 2^k

expf(y) ==
    IF IsNaN(y) THEN NaN
    ELSE IF y >= 0 THEN ExpPos(y)
    ELSE (Q15 * Q15) \div ExpPos(-y)

\* sinf of a Q15 operand in [0, pi/2]
sinf(x) ==
    IF IsNaN(x) THEN NaN
    ELSE LET x2 == Mul15(x, x)
             x3 == Mul15(x, x2)
             x5 == Mul15(x3, x2)
             x7 == Mul15(x5, x2)
         IN  x - x3 \div 6 + x5 \div 120 - x7 \div 5040

RECURSIVE ISqrt(_, _, _)
\* the largest r in lo..hi with r * r <= x
ISqrt(x, lo, hi) ==
    IF lo >= hi THEN lo
    ELSE LET mid == (lo + hi + 1) \div 2
         IN  IF mid * mid <= x THEN ISqrt(x, mid, hi) ELSE ISqrt(x, lo, mid - 1)

\* sqrtf((float)n) for a small integer n, result in Q15
sqrtf(n) == ISqrt(n * 2^24, 0, Q15) * 2^3

(* ------------------------------------------------------------------ *)
(* State                                                                *)
(* ------------------------------------------------------------------ *)
VARIABLES
    g_host,       \* the process-wide host binding: NULL or "host"
    v,            \* the vocoder_instance_t behind the instance handle
    audio_inout,  \* the caller's in/out carrier buffer of the last block call
    mic_in,       \* the host's audio input region read by the last block call
    out,          \* get_param's caller buffer: [ret, written, text]
    nan_clamp,    \* what the build's clampf yields on a NaN operand
    call,         \* the last API call made and its arguments
    ncalls,       \* the number of API calls made so far
    topo_changed, \* a set_param changed bands, freq_low or freq_high and
                  \* no block has been processed since
    blk           \* the v2_process_block call in flight on the audio context

vars ==
    <<g_host, v, audio_inout, mic_in, out, nan_clamp, call, ncalls,
      topo_changed, blk>>

Band == 0 .. (MAX_BANDS - 1)

(* ------------------------------------------------------------------ *)
(* Text: the strings the API takes and gives                            *)
(* ------------------------------------------------------------------ *)
\* a decimal numeral with dec digits after the point: digits / 10^dec
Num(neg, digits, dec) ==
    [kind |-> "num", neg |-> neg, digits |-> digits, dec |-> dec, fields |-> <<>>]
NanText == [kind |-> "nan", neg |-> FALSE, digits |-> 0, dec |-> 0, fields |-> <<>>]
InfText(neg) == [kind |-> "inf", neg |-> neg, digits |-> 0, dec |-> 0, fields |-> <<>>]
\* text that starts with no number
JunkText == [kind |-> "junk", neg |-> FALSE, digits |-> 0, dec |-> 0, fields |-> <<>>]
\* {"key":value,...}: the fields in the order they stand in the text
Json(fields) ==
    [kind |-> "json", neg |-> FALSE, digits |-> 0, dec |-> 0, fields |-> fields]
NoText == [kind |-> "none", neg |-> FALSE, digits |-> 0, dec |-> 0, fields |-> <<>>]

\* atof, then the cast to float: the value in thousandths
atof(t) ==
    CASE t.kind = "num" -> (IF t.neg THEN -1 ELSE 1) * t.digits * 10^(3 - t.dec)
      [] t.kind = "nan" -> NaN
      [] t.kind = "inf" -> IF t.neg THEN NegInf ELSE PosInf
      [] OTHER -> 0

\* atoi: the digits before the first non-digit
atoi(t) ==
    IF t.kind = "num"
    THEN (IF t.neg THEN -1 ELSE 1) * (t.digits \div 10^t.dec)
    ELSE 0

\* (int)fv: the AArch64 conversion the build emits (FCVTZS) truncates,
\* saturates and maps NaN to 0
FloatToInt(fv) ==
    CASE IsNaN(fv) -> 0
      [] fv >= PosInf -> INT_MAX
      [] fv <= NegInf -> INT_MIN
      [] OTHER -> TruncDiv(fv, Milli)

\* x / unit rounded to the nearest integer, a tie to the even one
RoundHalfEven(x, unit) ==
    LET q == x \div unit
        r == x % unit
    IN  IF 2 * r < unit THEN q
        ELSE IF 2 * r > unit THEN q + 1
        ELSE IF q % 2 = 0 THEN q ELSE q + 1

\* a conversion that cuts the digits after the precision off
FmtFloat_truncating(x, dec) ==
    IF IsNaN(x) THEN NanText
    ELSE Num(x < 0, Abs(x) \div 10^(3 - dec), dec)

\* printf "%.<dec>f" of a stored float
FmtFloat(x, dec) ==
    IF IsNaN(x) THEN NanText
    ELSE Num(x < 0, RoundHalfEven(Abs(x), 10^(3 - dec)), dec)

\* printf "%d"
FmtInt(n) == Num(n < 0, Abs(n), 0)

RECURSIVE NumDigits(_)
NumDigits(n) == IF n < 10 THEN 1 ELSE 1 + NumDigits(n \div 10)

\* strlen of a numeral as printf writes it
TextLen(t) ==
    CASE t.kind = "num" ->
            (IF t.neg THEN 1 ELSE 0) + NumDigits(t.digits \div 10^t.dec)
              + (IF t.dec > 0 THEN 1 + t.dec ELSE 0)
      [] t.kind = "nan" -> 3
      [] t.kind = "inf" -> IF t.neg THEN 4 ELSE 3
      [] OTHER -> 0

RECURSIVE JsonFind(_, _, _)
\* strstr(json, "\"key\":"): the index of the first field named key, or 0
JsonFind(fields, key, i) ==
    IF i > Len(fields) THEN 0
    ELSE IF fields[i].key = key THEN i
    ELSE JsonFind(fields, key, i + 1)

\* json_get_float: [rc, out]
json_get_float(json, key) ==
    LET i == JsonFind(json.fields, key, 1)
    IN  IF i = 0 THEN [rc |-> -1, out |-> 0]
        ELSE [rc |-> 0, out |-> atof(json.fields[i].val)]

\* json_get_int: [rc, out]
json_get_int(json, key) ==
    LET i == JsonFind(json.fields, key, 1)
    IN  IF i = 0 THEN [rc |-> -1, out |-> 0]
        ELSE [rc |-> 0, out |-> atoi(json.fields[i].val)]

(* ------------------------------------------------------------------ *)
(* Clamp and snap helpers                                               *)
(* ------------------------------------------------------------------ *)
\* With a NaN operand both comparisons are false and x is returned; the
\* build's -Ofast lets the compiler assume no NaN, and a min/max instruction
\* pair then yields a bound instead.  nan_clamp is the build's outcome.
clampf(x, lo, hi) ==
    IF IsNaN(x)
    THEN CASE nan_clamp = "nan" -> x
           [] nan_clamp = "lo" -> lo
           [] OTHER -> hi
    ELSE IF x < lo THEN lo
    ELSE IF x > hi THEN hi
    ELSE x

clampi(x, lo, hi) ==
    IF x < lo THEN lo
    ELSE IF x > hi THEN hi
    ELSE x

\* brackets that end one below 12, 20 and 28
snap_bands_exclusive(n) ==
    IF n < 12 THEN 8
    ELSE IF n < 20 THEN 16
    ELSE IF n < 28 THEN 24
    ELSE 32

snap_bands(n) ==
    IF n <= 12 THEN 8
    ELSE IF n <= 20 THEN 16
    ELSE IF n <= 28 THEN 24
    ELSE 32

(* ------------------------------------------------------------------ *)
(* The instance and its helpers                                         *)
(* ------------------------------------------------------------------ *)
ZeroSvf == [b \in Band |-> [low |-> 0, band |-> 0]]
ZeroEnv == [b \in Band |-> 0]

\* uint32 values are pairs <<high 16 bits, low 16 bits>>
U32(hi, lo) == <<hi, lo>>

\* a generator without the increment: seed * 1664525 modulo 2^32
Lcg_no_increment(seed) ==
    LET low  == seed[2] * 26125
        high == seed[1] * 26125 + seed[2] * 25 + (low \div 2^16)
    IN  U32(high % 2^16, low % 2^16)

\* seed * 1664525 + 1013904223 modulo 2^32
\* (1664525 = 25 * 2^16 + 26125, 1013904223 = 15470 * 2^16 + 62303)
Lcg(seed) ==
    LET hi   == seed[1]
        lo   == seed[2]
        low  == lo * 26125 + 62303
        high == hi * 26125 + lo * 25 + 15470 + (low \div 2^16)
    IN  U32(high % 2^16, low % 2^16)

\* (float)(int32_t)seed / 2147483648.0f, in Q15
NoiseValue(seed) == IF seed[1] >= 2^15 THEN seed[1] - 2^16 ELSE seed[1]

\* noise_sample: [seed, ns]
noise_sample(seed) ==
    LET s == Lcg(seed)
    IN  [seed |-> s, ns |-> NoiseValue(s)]

\* the SVF frequency coefficient of band i of n, from logf(freq_low) and
\* logf(freq_high)
BandF(i, n, log_low, log_high) ==
    LET t  == IF n > 1 THEN (i * Q15) \div (n - 1) ELSE Q15 \div 2
        fc == expf(FAdd(log_low, FMul(t, FSub(log_high, log_low))))
        w  == IF IsNaN(fc) THEN NaN ELSE Mul15(M_PI, fc \div SAMPLE_RATE)
        f  == FMul(2 * Q15, sinf(w))
    IN  IF FGt(f, Q15) THEN Q15 ELSE f

\* the SVF reciprocal-Q of every band of n
BandQ(n) == (Q15 * Q15) \div (Q15 + sqrtf(n) \div 2)

\* 1 - expf(-1 / (ms * 0.001 * SAMPLE_RATE)), ms floored at 0.1
EnvCoeff(ms_in) ==
    LET ms == IF FLt(ms_in, 100) THEN 100 ELSE ms_in
    IN  IF IsNaN(ms) THEN NaN
        ELSE Q15 - expf(-((10^4 * Q15) \div (ms * (SAMPLE_RATE \div 100))))

recalc_bands(x) ==
    LET log_low  == logf(x.freq_low)
        log_high == logf(x.freq_high)
        n == x.bands
        q == BandQ(n)
    IN  [x EXCEPT
            !.band_f = [i \in Band |->
                          IF i < n THEN BandF(i, n, log_low, log_high) ELSE @[i]],
            !.band_q = [i \in Band |-> IF i < n THEN q ELSE @[i]],
            !.att_coeff = EnvCoeff(x.attack_ms),
            !.rel_coeff = EnvCoeff(x.release_ms),
            !.recalcs = @ + 1]

clear_filters(x) ==
    [x EXCEPT
        !.mod_svf_l = ZeroSvf, !.mod_svf_r = ZeroSvf,
        !.car_svf_l = ZeroSvf, !.car_svf_r = ZeroSvf,
        !.mod_env_l = ZeroEnv, !.mod_env_r = ZeroEnv,
        !.clears = x.clears + 1]

\* calloc: every byte of the instance is zero
Calloc ==
    [bands |-> 0, freq_low |-> 0, freq_high |-> 0, attack_ms |-> 0,
     release_ms |-> 0, mod_gain |-> 0, mix |-> 0, carrier_mix |-> 0,
     band_f |-> [b \in Band |-> 0], band_q |-> [b \in Band |-> 0],
     att_coeff |-> 0, rel_coeff |-> 0,
     mod_svf_l |-> ZeroSvf, mod_svf_r |-> ZeroSvf,
     car_svf_l |-> ZeroSvf, car_svf_r |-> ZeroSvf,
     mod_env_l |-> ZeroEnv, mod_env_r |-> ZeroEnv,
     noise_seed |-> U32(0, 0),
     \* bookkeeping: how often recalc_bands and clear_filters have run
     recalcs |-> 0, clears |-> 0]

v2_create_instance ==
    recalc_bands(
        [Calloc EXCEPT
            !.bands = 16, !.freq_low = 100 * Milli, !.freq_high = 8000 * Milli,
            !.attack_ms = 5 * Milli, !.release_ms = 50 * Milli,
            !.mod_gain = 1 * Milli, !.mix = 1 * Milli, !.carrier_mix = 100,
            !.noise_seed = U32(0, 12345)])

(* ------------------------------------------------------------------ *)
(* DSP                                                                  *)
(* ------------------------------------------------------------------ *)
\* svf_bandpass: the filter state after the sample; the output is .band
svf_bandpass(s, input, f, q) ==
    LET low  == FAdd(s.low, FMul(f, s.band))
        high == FSub(FSub(input, low), FMul(q, s.band))
    IN  [low |-> low, band |-> FAdd(s.band, FMul(f, high))]

\* env_follow: the level after the sample; the output is the level
env_follow(level, input, att, rel) ==
    LET rect  == fabsf(input)
        coeff == IF FGt(rect, level) THEN att ELSE rel
    IN  FAdd(level, FMul(coeff, FSub(rect, level)))

\* (int16_t)(x * 32767.0f); FCVTZS maps NaN to 0
ToSample(x) == IF IsNaN(x) THEN 0 ELSE TruncDiv(x * 32767, Q15)

\* what v2_process_block reads from the instance before the frame loop
BlockLocals(x) ==
    [n |-> x.bands, att |-> x.att_coeff, rel |-> x.rel_coeff,
     mod_gain |-> ToQ15(x.mod_gain), wet |-> ToQ15(x.mix),
     dry |-> FSub(Q15, ToQ15(x.mix)), noise_mix |-> ToQ15(x.carrier_mix)]

RECURSIVE SumBands(_, _, _, _)
\* out += car_band * env over the bands b .. n-1
SumBands(car, env, b, n) ==
    IF b >= n THEN 0
    ELSE FAdd(FMul(car[b].band, env[b]), SumBands(car, env, b + 1, n))

\* an array as a value: every entry computed once
Stored(arr) == [arr EXCEPT ![0] = @]

\* one pass of the frame loop, frame i: [v, buf]
ProcessFrame(x, buf, mic, i, L) ==
    LET car_l == buf[2 * i + 1]
        car_r == buf[2 * i + 2]
        mod_l == FMul(mic[2 * i + 1], L.mod_gain)
        mod_r == FMul(mic[2 * i + 2], L.mod_gain)
        nz    == noise_sample(x.noise_seed)
        car_noise_l == FAdd(car_l, FMul(nz.ns, L.noise_mix))
        car_noise_r == FAdd(car_r, FMul(nz.ns, L.noise_mix))
        \* the band loop, per array: bands 0 .. n-1 advance
        Svf(arr, input) ==
            Stored([b \in Band |->
                      IF b < L.n
                      THEN svf_bandpass(arr[b], input, x.band_f[b], x.band_q[b])
                      ELSE arr[b]])
        Env(arr, svf) ==
            Stored([b \in Band |->
                      IF b < L.n
                      THEN env_follow(arr[b], svf[b].band, L.att, L.rel)
                      ELSE arr[b]])
        msl == Svf(x.mod_svf_l, mod_l)
        msr == Svf(x.mod_svf_r, mod_r)
        mel == Env(x.mod_env_l, msl)
        mer == Env(x.mod_env_r, msr)
        csl == Svf(x.car_svf_l, car_noise_l)
        csr == Svf(x.car_svf_r, car_noise_r)
        scale == 2 * ((Q15 * Q15) \div sqrtf(L.n))
        out_l == FMul(SumBands(csl, mel, 0, L.n), scale)
        out_r == FMul(SumBands(csr, mer, 0, L.n), scale)
        mix_l == clampf(FAdd(FMul(out_l, L.wet), FMul(car_l, L.dry)), -Q15, Q15)
        mix_r == clampf(FAdd(FMul(out_r, L.wet), FMul(car_r, L.dry)), -Q15, Q15)
    IN  [v |-> [x EXCEPT !.noise_seed = nz.seed,
                         !.mod_svf_l = msl, !.mod_svf_r = msr,
                         !.car_svf_l = csl, !.car_svf_r = csr,
                         !.mod_env_l = mel, !.mod_env_r = mer],
         buf |-> [buf EXCEPT ![2 * i + 1] = ToSample(mix_l),
                             ![2 * i + 2] = ToSample(mix_r)]]

RECURSIVE ProcessFrames(_, _, _, _, _, _)
\* the frame loop from frame i on: [v, buf]
ProcessFrames(x, buf, mic, i, frames, L) ==
    IF i >= frames THEN [v |-> x, buf |-> buf]
    ELSE LET r == ProcessFrame(x, buf, mic, i, L)
         IN  ProcessFrames(r.v, r.buf, mic, i + 1, frames, L)

\* a guard that looks at the instance only
ProcessRuns_instance_only(inst, host) == inst # NULL

\* the early return of v2_process_block does not happen
ProcessRuns(inst, host) == inst # NULL /\ host # NULL

(* ------------------------------------------------------------------ *)
(* set_param                                                            *)
(* ------------------------------------------------------------------ *)
\* the fields a state text sets, before clear_filters and recalc_bands
ApplyState(x, val) ==
    LET gi == json_get_int(val, "bands")
        gf(key) == json_get_float(val, key)
        Put(key, old, lo, hi) ==
            IF gf(key).rc = 0 THEN clampf(gf(key).out, lo, hi) ELSE old
    IN  [x EXCEPT
            !.bands = IF gi.rc = 0 THEN snap_bands(clampi(gi.out, 8, 32)) ELSE @,
            !.freq_low = Put("freq_low", @, 80 * Milli, 500 * Milli),
            !.freq_high = Put("freq_high", @, 2000 * Milli, 12000 * Milli),
            !.attack_ms = Put("attack", @, 100, 50 * Milli),
            !.release_ms = Put("release", @, 5 * Milli, 500 * Milli),
            !.mod_gain = Put("mod_gain", @, 0, 3 * Milli),
            !.mix = Put("mix", @, 0, 1 * Milli),
            !.carrier_mix = Put("carrier_mix", @, 0, 1 * Milli)]

\* a state branch that recomputes and does not reset
SetState_no_reset(x, val) == recalc_bands(ApplyState(x, val))

\* the branch of the "state" key
SetState(x, val) == recalc_bands(clear_filters(ApplyState(x, val)))

\* the band count a "bands" value asks for
NewBands(fv) == snap_bands(clampi(FloatToInt(fv), 8, 32))

\* a bands branch that resets and recomputes whether or not the count
\* changes
SetBands_always_reset(x, fv) ==
    recalc_bands(clear_filters([x EXCEPT !.bands = NewBands(fv)]))

\* a bands branch that stores the count and resets, and does not recompute
SetBands_no_recalc(x, fv) ==
    LET new_bands == NewBands(fv)
    IN  IF new_bands # x.bands
        THEN clear_filters([x EXCEPT !.bands = new_bands])
        ELSE x

\* the branch of the "bands" key
SetBands(x, fv) ==
    LET new_bands == NewBands(fv)
    IN  IF new_bands # x.bands
        THEN recalc_bands(clear_filters([x EXCEPT !.bands = new_bands]))
        ELSE x

\* the if/else chain over the scalar keys
SetScalar(x, key, fv) ==
    CASE key = "bands" -> SetBands(x, fv)
      [] key = "freq_low" ->
            recalc_bands([x EXCEPT !.freq_low = clampf(fv, 80 * Milli, 500 * Milli)])
      [] key = "freq_high" ->
            recalc_bands([x EXCEPT !.freq_high = clampf(fv, 2000 * Milli, 12000 * Milli)])
      [] key = "attack" ->
            recalc_bands([x EXCEPT !.attack_ms = clampf(fv, 100, 50 * Milli)])
      [] key = "release" ->
            recalc_bands([x EXCEPT !.release_ms = clampf(fv, 5 * Milli, 500 * Milli)])
      [] key = "mod_gain" -> [x EXCEPT !.mod_gain = clampf(fv, 0, 3 * Milli)]
      [] key = "mix" -> [x EXCEPT !.mix = clampf(fv, 0, 1 * Milli)]
      [] key = "carrier_mix" -> [x EXCEPT !.carrier_mix = clampf(fv, 0, 1 * Milli)]
      [] OTHER -> x

\* a handler that takes "volume" for another name of "mix"
set_param_volume_alias(x, key, val) ==
    IF key = "state" THEN SetState(x, val)
    ELSE SetScalar(x, IF key = "volume" THEN "mix" ELSE key, atof(val))

\* v2_set_param on a non-null instance
set_param(x, key, val) ==
    IF key = "state" THEN SetState(x, val) ELSE SetScalar(x, key, atof(val))

(* ------------------------------------------------------------------ *)
(* get_param                                                            *)
(* ------------------------------------------------------------------ *)
UI_HIERARCHY_LEN == 233
CHAIN_PARAMS_LEN == 789
\* the characters of the state format string outside its conversions
STATE_FIXED_LEN == 90

StateKeys ==
    <<"bands", "freq_low", "freq_high", "attack", "release", "mod_gain",
      "mix", "carrier_mix">>

\* the text of one scalar parameter
ParamText(x, key) ==
    CASE key = "bands" -> FmtInt(x.bands)
      [] key = "freq_low" -> FmtFloat(x.freq_low, 1)
      [] key = "freq_high" -> FmtFloat(x.freq_high, 1)
      [] key = "attack" -> FmtFloat(x.attack_ms, 1)
      [] key = "release" -> FmtFloat(x.release_ms, 1)
      [] key = "mod_gain" -> FmtFloat(x.mod_gain, 2)
      [] key = "mix" -> FmtFloat(x.mix, 2)
      [] key = "carrier_mix" -> FmtFloat(x.carrier_mix, 2)

\* the state object get_param formats
StateText(x) ==
    Json([i \in 1 .. 8 |-> [key |-> StateKeys[i], val |-> ParamText(x, StateKeys[i])]])

RECURSIVE FieldsLen(_, _)
FieldsLen(fields, i) ==
    IF i > Len(fields) THEN 0
    ELSE TextLen(fields[i].val) + FieldsLen(fields, i + 1)

StaticText(name) ==
    [kind |-> name, neg |-> FALSE, digits |-> 0, dec |-> 0, fields |-> <<>>]
\* what is left of a text that did not fit the buffer
CutText == StaticText("cut")

\* snprintf(buf, buf_len, ...) of a text of len characters: it returns len
\* and writes at most buf_len - 1 of them
Snprintf(text, len, buf_len) ==
    [ret |-> len,
     written |-> IF len < buf_len THEN len ELSE IF buf_len > 0 THEN buf_len - 1 ELSE 0,
     text |-> IF len < buf_len THEN text ELSE CutText]

\* the descriptor branches: strcpy when the text and its terminator fit
CopyStatic(name, len, buf_len) ==
    IF len < buf_len
    THEN [ret |-> len, written |-> len, text |-> StaticText(name)]
    ELSE [ret |-> -1, written |-> 0, text |-> NoText]

\* v2_get_param on a non-null instance: [ret, written, text]
get_param(x, key, buf_len) ==
    CASE key = "name" -> Snprintf(StaticText("Vocoder"), 7, buf_len)
      [] key \in {StateKeys[i] : i \in 1 .. 8} ->
            Snprintf(ParamText(x, key), TextLen(ParamText(x, key)), buf_len)
      [] key = "state" ->
            Snprintf(StateText(x),
                     STATE_FIXED_LEN + FieldsLen(StateText(x).fields, 1), buf_len)
      [] key = "ui_hierarchy" -> CopyStatic("ui_hierarchy", UI_HIERARCHY_LEN, buf_len)
      [] key = "chain_params" -> CopyStatic("chain_params", CHAIN_PARAMS_LEN, buf_len)
      [] OTHER -> [ret |-> -1, written |-> 0, text |-> NoText]

(* ------------------------------------------------------------------ *)
(* The API handlers as actions                                          *)
(* ------------------------------------------------------------------ *)
\* the record of an API call: its arguments and the host binding it found
Call(op, inst, key, val, buf_len, buf, frames) ==
    [op |-> op, inst |-> inst, key |-> key, val |-> val, buf_len |-> buf_len,
     buf |-> buf, frames |-> frames, host |-> g_host]

\* create_instance, the first call
Created ==
    [op |-> "create", inst |-> NULL, key |-> "", val |-> NoText, buf_len |-> 0,
     buf |-> <<>>, frames |-> 0, host |-> "host"]

NoOut == [ret |-> 0, written |-> 0, text |-> NoText]

TopologyOf(x) == <<x.bands, x.freq_low, x.freq_high>>

\* the coefficients the frame loop works with
CoeffView(x) ==
    [n |-> x.bands, att |-> x.att_coeff, rel |-> x.rel_coeff,
     band_f |-> x.band_f, band_q |-> x.band_q]

\* no block call is in flight
Idle ==
    [active |-> FALSE, i |-> 0, frames |-> 0, L |-> <<>>, cfg |-> <<>>,
     torn |-> FALSE]

\* move_audio_fx_init_v2(host): binds the host and hands out the API table
move_audio_fx_init_v2(host) ==
    /\ g_host' = host
    /\ call' = Call("init", NULL, "", NoText, 0, <<>>, 0)
    /\ ncalls' = ncalls + 1
    /\ UNCHANGED <<v, audio_inout, mic_in, out, nan_clamp, topo_changed, blk>>

\* v2_process_block(instance, audio_inout, frames), run to completion;
\* mic is the content of the host's input region
v2_process_block(inst, buf, mic, frames) ==
    /\ ~blk.active
    /\ LET r == IF ProcessRuns(inst, g_host)
                THEN ProcessFrames(v, buf, mic, 0, frames, BlockLocals(v))
                ELSE [v |-> v, buf |-> buf]
       IN  /\ v' = r.v
           /\ audio_inout' = r.buf
    /\ mic_in' = mic
    /\ topo_changed' = (topo_changed /\ ~ProcessRuns(inst, g_host))
    /\ call' = Call("process", inst, "", NoText, 0, buf, frames)
    /\ ncalls' = ncalls + 1
    /\ UNCHANGED <<g_host, out, nan_clamp, blk>>

\* v2_set_param(instance, key, val)
v2_set_param(inst, key, val) ==
    /\ v' = IF inst = NULL THEN v ELSE set_param(v, key, val)
    /\ topo_changed' = (topo_changed \/ TopologyOf(v') # TopologyOf(v))
    /\ call' = Call("set", inst, key, val, 0, <<>>, 0)
    /\ ncalls' = ncalls + 1
    /\ UNCHANGED <<g_host, audio_inout, mic_in, out, nan_clamp, blk>>

\* v2_get_param(instance, key, buf, buf_len)
v2_get_param(inst, key, buf_len) ==
    /\ out' = IF inst = NULL
              THEN [ret |-> -1, written |-> 0, text |-> NoText]
              ELSE get_param(v, key, buf_len)
    /\ call' = Call("get", inst, key, NoText, buf_len, <<>>, 0)
    /\ ncalls' = ncalls + 1
    /\ UNCHANGED <<g_host, v, audio_inout, mic_in, nan_clamp, topo_changed, blk>>

\* v2_process_block in steps, for a caller on another context than the
\* one that sets parameters.  begin_block: the guard and the locals read
\* before the frame loop.
begin_block(inst, buf, mic, frames) ==
    /\ ~blk.active
    /\ ProcessRuns(inst, g_host)
    /\ blk' = [active |-> TRUE, i |-> 0, frames |-> frames, L |-> BlockLocals(v),
               cfg |-> CoeffView(v), torn |-> FALSE]
    /\ audio_inout' = buf
    /\ mic_in' = mic
    /\ topo_changed' = FALSE
    /\ call' = Call("process", inst, "", NoText, 0, buf, frames)
    /\ ncalls' = ncalls + 1
    /\ UNCHANGED <<g_host, v, out, nan_clamp>>

\* one pass of the frame loop: n, att and rel are the locals of the block,
\* band_f, band_q and the filter state are read from the instance
frame_step ==
    /\ blk.active
    /\ blk.i < blk.frames
    /\ LET r == ProcessFrame(v, audio_inout, mic_in, blk.i, blk.L)
           seen == [blk.cfg EXCEPT !.band_f = v.band_f, !.band_q = v.band_q]
       IN  /\ v' = r.v
           /\ audio_inout' = r.buf
           /\ blk' = [blk EXCEPT
                        !.i = @ + 1,
                        !.torn = @ \/ seen \notin {blk.cfg, CoeffView(v)}]
    /\ UNCHANGED <<g_host, mic_in, out, nan_clamp, call, ncalls, topo_changed>>

\* the frame loop is done and the call returns
end_block ==
    /\ blk.active
    /\ blk.i >= blk.frames
    /\ blk' = Idle
    /\ UNCHANGED <<g_host, v, audio_inout, mic_in, out, nan_clamp, call, ncalls,
                   topo_changed>>

(* ------------------------------------------------------------------ *)
(* Inputs                                                               *)
(* ------------------------------------------------------------------ *)
MaxCalls == 3
MaxFrames == 2

Hosts == {NULL, "host"}
NanClamps == {"nan", "lo", "hi"}

ScalarKeys == {StateKeys[i] : i \in 1 .. 8}
WritableKeys == ScalarKeys \cup {"state"}
ReadableKeys == WritableKeys \cup {"name", "ui_hierarchy", "chain_params"}

\* the numeral of an integer
IntText(n) == Num(n < 0, Abs(n), 0)

Field(key, val) == [key |-> key, val |-> val]

Spread(a, b) == [j \in 1 .. 2 * MaxFrames |-> IF j % 2 = 1 THEN a ELSE b]
\* carrier blocks: both full-scale values, the smallest values
Carriers == {Spread(32767, -32768), Spread(1, -1)}
\* the modulator block
Mic == Spread(16384, -8192)

\* set_param calls: every writable key, values below, inside and above the
\* ranges, a value that snaps to the default band count, text that is no
\* number, a partial state object, a key no handler knows and the read-only
\* key
SetInputs ==
    {<<"bands", IntText(24)>>,
     <<"bands", Num(FALSE, 169, 1)>>,
     <<"freq_low", Num(FALSE, 20025, 2)>>,
     <<"freq_high", IntText(99999)>>,
     <<"attack", Num(FALSE, 375, 3)>>,
     <<"release", IntText(-1)>>,
     <<"mod_gain", Num(FALSE, 375, 3)>>,
     <<"mix", IntText(0)>>,
     <<"carrier_mix", JunkText>>,
     <<"state", Json(<<Field("mix", Num(FALSE, 5, 1)), Field("bands", IntText(7))>>)>>,
     <<"volume", IntText(24)>>,
     <<"name", NanText>>}

InitWith(clamps) ==
    /\ g_host = "host"
    /\ v = v2_create_instance
    /\ audio_inout = <<>>
    /\ mic_in = <<>>
    /\ out = NoOut
    /\ nan_clamp \in clamps
    /\ call = Created
    /\ ncalls = 0
    /\ topo_changed = FALSE
    /\ blk = Idle

Init == InitWith({"nan"})

\* the API called from one context, each call run to completion
Next ==
    \/ \E host \in Hosts : ncalls < MaxCalls /\ move_audio_fx_init_v2(host)
    \/ \E buf \in Carriers :
          ncalls < MaxCalls /\ v2_process_block("inst", buf, Mic, MaxFrames)
    \/ ncalls < MaxCalls /\ v2_process_block(NULL, Spread(1, -1), Mic, MaxFrames)
    \/ \E in \in SetInputs :
          ncalls < MaxCalls /\ v2_set_param("inst", in[1], in[2])
    \/ ncalls < MaxCalls /\ v2_set_param(NULL, "mix", IntText(0))
    \/ ncalls < MaxCalls /\ v2_get_param("inst", "state", 256)

Spec == Init /\ [][Next]_vars

(* ------------------------------------------------------------------ *)
(* Properties under Spec                                                *)
(* ------------------------------------------------------------------ *)
\* the four filter-state arrays and the two envelope arrays are all zero
FiltersZero(x) ==
    /\ x.mod_svf_l = ZeroSvf /\ x.mod_svf_r = ZeroSvf
    /\ x.car_svf_l = ZeroSvf /\ x.car_svf_r = ZeroSvf
    /\ x.mod_env_l = ZeroEnv /\ x.mod_env_r = ZeroEnv

\* a processBlock call on the instance with the host bound is the next step
BlockStarts == call'.op = "process" /\ call'.inst # NULL /\ g_host # NULL

\* C1: when a set call has changed bands, freq_low or freq_high since the
\* last processed block, the four filter-state arrays and the two envelope
\* arrays are zero when the next processBlock starts.
C1_TopologyChangeResetsFilters ==
    [][(BlockStarts /\ topo_changed) => FiltersZero(v)]_vars

\* C3: with mix = 0 a processed block leaves in the buffer exactly the
\* carrier samples it was called with.
C3_MixZeroIsIdentity ==
    [][(BlockStarts /\ v.mix = 0) => audio_inout' = call'.buf]_vars

\* C9: a set call whose key is none of the writable keys changes nothing of
\* the instance: parameters, coefficients, filter and envelope state, seed.
C9_UnknownKeyIgnored ==
    [][(call'.op = "set" /\ call'.inst # NULL /\ call'.key \notin WritableKeys)
          => v' = v]_vars

\* an unknown key has been set on an instance whose filters, envelopes and
\* seed a block has advanced
C9_Witness ==
    /\ call.op = "set" /\ call.inst # NULL /\ call.key = "volume"
    /\ ~FiltersZero(v)
    /\ v.noise_seed # U32(0, 12345)

\* C10: processBlock with a null instance, or with no host bound, leaves the
\* buffer as it was passed and the instance as it was.
C10_ProcessNoOp ==
    [][(call'.op = "process" /\ (call'.inst = NULL \/ g_host = NULL))
          => (v' = v /\ audio_inout' = call'.buf)]_vars

\* a block has been passed to an instance with advanced filters while no
\* host was bound, and the buffer still holds the carrier
C10_Witness ==
    /\ call.op = "process" /\ call.inst # NULL /\ call.host = NULL
    /\ ~FiltersZero(v)
    /\ audio_inout = call.buf /\ Len(audio_inout) = 2 * MaxFrames

(* ------------------------------------------------------------------ *)
(* Blocks and parameter sets on two contexts                            *)
(* ------------------------------------------------------------------ *)
MaxConcCalls == 3

\* what the control context sets while blocks run
ConcSetInputs ==
    {<<"bands", IntText(24)>>,
     <<"freq_low", Num(FALSE, 20025, 2)>>,
     <<"attack", Num(FALSE, 375, 3)>>,
     <<"mix", IntText(0)>>,
     <<"state", Json(<<Field("mix", Num(FALSE, 5, 1)), Field("bands", IntText(7))>>)>>}

\* the audio context runs blocks frame by frame; the control context's
\* v2_set_param takes no lock and may run between any two frames
NextConc ==
    \/ \E buf \in Carriers :
          ncalls < MaxConcCalls /\ begin_block("inst", buf, Mic, MaxFrames)
    \/ frame_step
    \/ end_block
    \/ \E in \in ConcSetInputs :
          ncalls < MaxConcCalls /\ v2_set_param("inst", in[1], in[2])

SpecConc == Init /\ [][NextConc]_vars

\* C2: no frame of a block in flight works with a mix of two
\* configurations: the band count and envelope coefficients it uses and the
\* band coefficients it reads are those of the configuration the block
\* started with, or those of the configuration now stored.
C2_NoTornBlock == ~blk.torn


(* ------------------------------------------------------------------ *)
(* Parameter sets and queries with arbitrary values                     *)
(* ------------------------------------------------------------------ *)
MaxParamCalls == 2

\* value strings: below, inside and above every range, not numbers at all
ParamVals ==
    {IntText(-1), Num(FALSE, 375, 3), IntText(24), IntText(99999),
     NanText, InfText(FALSE), InfText(TRUE), JunkText}

\* state texts: out-of-range values and a value that is no number
ParamStates ==
    {Json(<<Field("bands", IntText(99)), Field("freq_low", IntText(-1)),
            Field("mix", NanText)>>),
     Json(<<Field("release", InfText(FALSE)), Field("attack", JunkText)>>)}

\* buffer sizes: too small for every value, large enough for the scalars and
\* the state, large enough for every value
BufLens == {2, 256, 1024}

InitParams == InitWith(NanClamps)

NextParams ==
    \/ \E key \in ScalarKeys, val \in ParamVals :
          ncalls < MaxParamCalls /\ v2_set_param("inst", key, val)
    \/ \E val \in ParamStates :
          ncalls < MaxParamCalls /\ v2_set_param("inst", "state", val)
    \/ \E key \in ReadableKeys \cup {"volume"}, buf_len \in BufLens :
          ncalls < MaxParamCalls /\ v2_get_param("inst", key, buf_len)
    \/ ncalls < MaxParamCalls /\ v2_get_param(NULL, "bands", 256)
    \/ ncalls < MaxParamCalls
          /\ v2_process_block("inst", Spread(32767, -32768), Mic, MaxFrames)

SpecParams == InitParams /\ [][NextParams]_vars

\* the length of the full text of a readable key's value
ValueLen(x, key) ==
    CASE key = "name" -> 7
      [] key \in ScalarKeys -> TextLen(ParamText(x, key))
      [] key = "state" -> STATE_FIXED_LEN + FieldsLen(StateText(x).fields, 1)
      [] key = "ui_hierarchy" -> UI_HIERARCHY_LEN
      [] key = "chain_params" -> CHAIN_PARAMS_LEN

\* C4: a query returns -1 when the key is unknown or the buffer cannot hold
\* the full value and its terminator, and otherwise the number of bytes it
\* wrote.
C4_GetParamReturn ==
    (call.op = "get" /\ call.inst # NULL) =>
        IF call.key \notin ReadableKeys \/ ValueLen(v, call.key) >= call.buf_len
        THEN out.ret = -1
        ELSE out.ret = out.written /\ out.ret = ValueLen(v, call.key)

InRange(x, lo, hi) == ~IsNaN(x) /\ lo <= x /\ x <= hi

\* C6: the stored parameters are always inside their ranges: bands in
\* {8, 16, 24, 32}, freq_low in [80, 500], freq_high in [2000, 12000],
\* attack in [0.1, 50], release in [5, 500], mod_gain in [0, 3], mix and
\* carrier_mix in [0, 1].
C6_ParamsInRange ==
    /\ v.bands \in {8, 16, 24, 32}
    /\ InRange(v.freq_low, 80 * Milli, 500 * Milli)
    /\ InRange(v.freq_high, 2000 * Milli, 12000 * Milli)
    /\ InRange(v.attack_ms, 100, 50 * Milli)
    /\ InRange(v.release_ms, 5 * Milli, 500 * Milli)
    /\ InRange(v.mod_gain, 0, 3 * Milli)
    /\ InRange(v.mix, 0, 1 * Milli)
    /\ InRange(v.carrier_mix, 0, 1 * Milli)


(* ------------------------------------------------------------------ *)
(* Setting and reading the band count                                   *)
(* ------------------------------------------------------------------ *)
MaxBandCalls == 4

\* requested counts: both sides of every bracket end, far below and above
BandRequests == {-1, 5, 12, 13, 16, 20, 21, 28, 29, 33, 99999}

NextBands ==
    \/ \E x \in BandRequests :
          ncalls < MaxBandCalls /\ v2_set_param("inst", "bands", IntText(x))
    \/ ncalls < MaxBandCalls /\ v2_get_param("inst", "bands", 8)

SpecBands == Init /\ [][NextBands]_vars

\* the integer a numeral without decimals stands for
IntOf(t) == IF t.neg THEN -t.digits ELSE t.digits

\* the bracket table of the band snapping policy
Bracket(x) ==
    IF x <= 12 THEN 8 ELSE IF x <= 20 THEN 16 ELSE IF x <= 28 THEN 24 ELSE 32

\* C5: reading "bands" right after setting it to the integer x yields 8 for
\* x <= 12, 16 for 12 < x <= 20, 24 for 20 < x <= 28 and 32 above, whatever
\* count was stored before; and a larger request never snaps to a smaller
\* count.
C5_BandsSnap ==
    /\ [][(/\ call.op = "set" /\ call.key = "bands"
           /\ call'.op = "get" /\ call'.key = "bands")
            => (/\ out'.ret = out'.written
                /\ out'.text = IntText(Bracket(IntOf(call.val))))]_vars
    /\ [](\A a, b \in BandRequests :
            a <= b => NewBands(atof(IntText(a))) <= NewBands(atof(IntText(b))))

\* 29 was requested over a stored 8 and 32 was read back
C5_Witness ==
    /\ ncalls = 3
    /\ call.op = "get" /\ call.key = "bands"
    /\ out.text = IntText(32) /\ out.ret = 2
    /\ v.clears = 2


(* ------------------------------------------------------------------ *)
(* Restoring state from partial texts                                   *)
(* ------------------------------------------------------------------ *)
MaxStateCalls == 2

\* a value for every field: inside the ranges and off the defaults, or
\* outside the ranges and not a number
ProfileIn ==
    [bands |-> IntText(24), freq_low |-> Num(FALSE, 20025, 2),
     freq_high |-> IntText(4000), attack |-> Num(FALSE, 375, 3),
     release |-> IntText(100), mod_gain |-> Num(FALSE, 25, 1),
     mix |-> Num(FALSE, 5, 1), carrier_mix |-> Num(FALSE, 25, 2)]
ProfileOut ==
    [bands |-> IntText(7), freq_low |-> IntText(9999),
     freq_high |-> IntText(-1), attack |-> JunkText,
     release |-> InfText(FALSE), mod_gain |-> InfText(TRUE),
     mix |-> IntText(24), carrier_mix |-> Num(TRUE, 5, 1)]

\* the fields of a profile whose index is in idx, in the order of the text
RECURSIVE Pick(_, _, _)
Pick(profile, idx, i) ==
    IF i > 8 THEN <<>>
    ELSE (IF i \in idx THEN <<Field(StateKeys[i], profile[StateKeys[i]])>> ELSE <<>>)
            \o Pick(profile, idx, i + 1)

\* no field, one field, all but one field, every field
FieldSubsets ==
    {{}} \cup {{i} : i \in 1 .. 8} \cup {(1 .. 8) \ {i} : i \in 1 .. 8} \cup {1 .. 8}

StateInputs ==
    {Json(Pick(p, idx, 1)) : p \in {ProfileIn, ProfileOut}, idx \in FieldSubsets}
        \cup {JunkText}

NextState ==
    \/ \E val \in StateInputs :
          ncalls < MaxStateCalls /\ v2_set_param("inst", "state", val)
    \/ ncalls < MaxStateCalls
          /\ v2_process_block("inst", Spread(32767, -32768), Mic, MaxFrames)

SpecState == Init /\ [][NextState]_vars

\* the stored field a key names
FieldOf(x, key) ==
    CASE key = "bands" -> x.bands
      [] key = "freq_low" -> x.freq_low
      [] key = "freq_high" -> x.freq_high
      [] key = "attack" -> x.attack_ms
      [] key = "release" -> x.release_ms
      [] key = "mod_gain" -> x.mod_gain
      [] key = "mix" -> x.mix
      [] key = "carrier_mix" -> x.carrier_mix

\* the documented range of every float field, in thousandths
RangeOf ==
    [freq_low |-> <<80000, 500000>>, freq_high |-> <<2000000, 12000000>>,
     attack |-> <<100, 50000>>, release |-> <<5000, 500000>>,
     mod_gain |-> <<0, 3000>>, mix |-> <<0, 1000>>, carrier_mix |-> <<0, 1000>>]

Limit(x, lo, hi) == IF x < lo THEN lo ELSE IF x > hi THEN hi ELSE x

\* the value a field text stands for once clamped or snapped
Settled(key, t) ==
    IF key = "bands"
    THEN Bracket(Limit(atoi(t), 8, 32))
    ELSE Limit(atof(t), RangeOf[key][1], RangeOf[key][2])

\* the text of the first field a state text has under key, NoText if none
TextOf(val, key) ==
    IF \E j \in 1 .. Len(val.fields) : val.fields[j].key = key
    THEN val.fields[CHOOSE j \in 1 .. Len(val.fields) :
                      /\ val.fields[j].key = key
                      /\ \A k \in 1 .. (j - 1) : val.fields[k].key # key].val
    ELSE NoText

\* C7: a state set leaves every field the text does not name as it was,
\* stores the clamped or snapped value of every field it names, recomputes
\* the coefficients exactly once and leaves all filter and envelope state
\* zero, whichever fields are named and whether or not a value changes.
C7_PartialState ==
    [][(call'.op = "set" /\ call'.inst # NULL /\ call'.key = "state") =>
          /\ \A i \in 1 .. 8 :
                LET key == StateKeys[i]
                    t   == TextOf(call'.val, key)
                IN  FieldOf(v', key) =
                        IF t = NoText THEN FieldOf(v, key) ELSE Settled(key, t)
          /\ v'.recalcs = v.recalcs + 1
          /\ v'.clears = v.clears + 1
          /\ FiltersZero(v')
          /\ v'.noise_seed = v.noise_seed]_vars

\* after a block has advanced the filters, a text naming only mix has set
\* mix, kept the other fields at their defaults and zeroed the filters
C7_Witness ==
    /\ ncalls = 2
    /\ call.op = "set" /\ call.key = "state" /\ Len(call.val.fields) = 1
    /\ v.noise_seed # U32(0, 12345)
    /\ v.mix = 500 /\ v.bands = 16 /\ v.mod_gain = 1000
    /\ v.clears = 1 /\ v.recalcs = 2 /\ FiltersZero(v)


(* ------------------------------------------------------------------ *)
(* Saving and restoring state                                           *)
(* ------------------------------------------------------------------ *)
MaxTripCalls == 5

\* values with more decimals than the state text keeps, on and off the
\* midpoint between two texts
ProfileFine ==
    Json(<<Field("bands", IntText(24)), Field("freq_low", Num(FALSE, 20025, 2)),
           Field("freq_high", Num(FALSE, 400004, 2)),
           Field("attack", Num(FALSE, 375, 3)),
           Field("release", Num(FALSE, 506, 2)),
           Field("mod_gain", Num(FALSE, 375, 3)),
           Field("mix", Num(FALSE, 125, 3)),
           Field("carrier_mix", Num(FALSE, 619, 3))>>)

TripSetInputs ==
    {<<"state", ProfileFine>>,
     <<"freq_low", Num(FALSE, 8006, 2)>>,
     <<"mix", NanText>>}

\* the host saves the state text and hands the saved text back
NextRoundTrip ==
    \/ \E in \in TripSetInputs :
          ncalls < MaxTripCalls /\ v2_set_param("inst", in[1], in[2])
    \/ ncalls < MaxTripCalls /\ v2_get_param("inst", "state", 256)
    \/ /\ ncalls < MaxTripCalls
       /\ out.text.kind = "json"
       /\ v2_set_param("inst", "state", out.text)

SpecRoundTrip == Init /\ [][NextRoundTrip]_vars

\* the decimals the state text keeps of a float field
DecimalsOf ==
    [freq_low |-> 1, freq_high |-> 1, attack |-> 1, release |-> 1,
     mod_gain |-> 2, mix |-> 2, carrier_mix |-> 2]

\* new is old rounded to dec decimals: a multiple of the unit that is no
\* further than half a unit from old (not-a-number stays what it is)
RoundedTo(new, old, dec) ==
    IF IsNaN(old) \/ IsNaN(new) THEN new = old
    ELSE /\ new % 10^(3 - dec) = 0
         /\ 2 * Abs(new - old) <= 10^(3 - dec)

\* the step hands the state text just read back to the instance
RoundTripStep ==
    /\ call.op = "get" /\ call.key = "state" /\ out.text.kind = "json"
    /\ call'.op = "set" /\ call'.key = "state" /\ call'.val = out.text

\* C8: handing the state text just read back to the instance keeps bands
\* and leaves every float field at its previous value rounded to the
\* decimals of the text (one for freq_low, freq_high, attack, release; two
\* for mod_gain, mix, carrier_mix); when the fields are already so rounded,
\* as after one round trip, no stored value changes.
C8_StateRoundTrip ==
    [][RoundTripStep =>
          /\ v'.bands = v.bands
          /\ \A i \in 2 .. 8 :
                LET key == StateKeys[i]
                IN  /\ RoundedTo(FieldOf(v', key), FieldOf(v, key), DecimalsOf[key])
                    /\ RoundedTo(FieldOf(v, key), FieldOf(v, key), DecimalsOf[key])
                          => FieldOf(v', key) = FieldOf(v, key)]_vars

\* the second round trip after values with more decimals were stored: the
\* fields hold the rounded values
C8_Witness ==
    /\ ncalls = 5
    /\ call.op = "set" /\ call.key = "state" /\ call.val = StateText(v)
    /\ v.recalcs = 4
    /\ v.bands = 24 /\ v.freq_low = 200200 /\ v.freq_high = 4000000
    /\ v.attack_ms = 400 /\ v.release_ms = 5100
    /\ v.mod_gain = 380 /\ v.mix = 120 /\ v.carrier_mix = 620

(* ------------------------------------------------------------------ *)
(* Coefficients after parameter and state sets                          *)
(* ------------------------------------------------------------------ *)
MaxCoeffCalls == 3

\* sets of every key that feeds the coefficients, of keys that do not, of
\* band counts below and above the stored one, and of state texts
CoeffSetInputs ==
    {<<"bands", IntText(8)>>,
     <<"bands", IntText(24)>>,
     <<"bands", IntText(32)>>,
     <<"freq_low", Num(FALSE, 20025, 2)>>,
     <<"freq_low", NanText>>,
     <<"freq_high", IntText(4000)>>,
     <<"attack", Num(FALSE, 375, 3)>>,
     <<"release", IntText(100)>>,
     <<"mod_gain", Num(FALSE, 25, 1)>>,
     <<"mix", IntText(0)>>,
     <<"state", Json(<<Field("mix", Num(FALSE, 5, 1)), Field("bands", IntText(7))>>)>>,
     <<"state", Json(Pick(ProfileIn, 1 .. 8, 1))>>,
     <<"state", Json(Pick(ProfileOut, {2, 3, 4, 5}, 1))>>}

NextCoeff ==
    \/ \E in \in CoeffSetInputs :
          ncalls < MaxCoeffCalls /\ v2_set_param("inst", in[1], in[2])
    \/ ncalls < MaxCoeffCalls /\ v2_get_param("inst", "state", 256)

SpecCoeff == Init /\ [][NextCoeff]_vars

\* C11: after any sequence of parameter and state sets, the frequency and Q
\* coefficient of every band below the stored band count and the attack
\* and release coefficients are what the coefficient calculation gives for
\* the stored bands, freq_low, freq_high, attack and release.
C11_CoefficientsFresh ==
    /\ \A i \in Band :
          i < v.bands =>
            /\ v.band_f[i] = BandF(i, v.bands, logf(v.freq_low), logf(v.freq_high))
            /\ v.band_q[i] = BandQ(v.bands)
    /\ v.att_coeff = EnvCoeff(v.attack_ms)
    /\ v.rel_coeff = EnvCoeff(v.release_ms)

\* the band count went down to 8, freq_low changed, and the count then went
\* up to 32: every index is one processBlock reads
C11_Witness ==
    /\ ncalls = 3
    /\ call.op = "set" /\ call.key = "bands"
    /\ v.bands = 32 /\ v.clears = 2 /\ v.recalcs = 4
    /\ v.freq_low = 200250
    /\ v.band_f[31] # 0 /\ v.band_q[31] # 0

(* ------------------------------------------------------------------ *)
(* The noise seed over blocks, sets and resets                          *)
(* ------------------------------------------------------------------ *)
MaxSeedCalls == 3

\* sets of carrier_mix to 0 and to a half, a band change and a state text
\* (both reset the filters), and a key that only stores
SeedSetInputs ==
    {<<"carrier_mix", IntText(0)>>,
     <<"carrier_mix", Num(FALSE, 5, 1)>>,
     <<"bands", IntText(24)>>,
     <<"state", Json(<<Field("carrier_mix", IntText(0))>>)>>,
     <<"mix", Num(FALSE, 5, 1)>>}

NextSeed ==
    \/ \E frames \in 1 .. MaxFrames :
          ncalls < MaxSeedCalls
            /\ v2_process_block("inst", Spread(32767, -32768), Mic, frames)
    \/ ncalls < MaxSeedCalls /\ v2_process_block(NULL, Spread(1, -1), Mic, MaxFrames)
    \/ \E in \in SeedSetInputs :
          ncalls < MaxSeedCalls /\ v2_set_param("inst", in[1], in[2])

SpecSeed == Init /\ [][NextSeed]_vars

\* (seed * 1664525 + 1013904223) mod 2^32 by long multiplication on bytes:
\* 1664525 is 00 19 66 0D and 1013904223 is 3C 6E F3 5F in hexadecimal
SeedStep(seed) ==
    LET b0 == seed[2] % 256
        b1 == seed[2] \div 256
        b2 == seed[1] % 256
        b3 == seed[1] \div 256
        s0 == b0 * 13 + 95
        s1 == b0 * 102 + b1 * 13 + 243 + (s0 \div 256)
        s2 == b0 * 25 + b1 * 102 + b2 * 13 + 110 + (s1 \div 256)
        s3 == b1 * 25 + b2 * 102 + b3 * 13 + 60 + (s2 \div 256)
    IN  <<(s3 % 256) * 256 + (s2 % 256), (s1 % 256) * 256 + (s0 % 256)>>

RECURSIVE SeedAfter(_, _)
\* the seed after n more frames
SeedAfter(seed, n) == IF n = 0 THEN seed ELSE SeedAfter(SeedStep(seed), n - 1)

\* C12: the seed starts at 12345; a block that is processed steps it once
\* per frame by seed * 1664525 + 1013904223 mod 2^32, whatever carrier_mix
\* is; no other call changes it.
C12_SeedFollowsFrames ==
    /\ v.noise_seed = <<0, 12345>>
    /\ [][IF call'.op = "process" /\ call'.inst # NULL /\ g_host # NULL
          THEN v'.noise_seed = SeedAfter(v.noise_seed, call'.frames)
          ELSE v'.noise_seed = v.noise_seed]_vars

\* two frames, then carrier_mix set to 0 by a state text that also resets
\* the filters, then one frame: the seed is the third after 12345
C12_Witness ==
    /\ ncalls = 3
    /\ call.op = "process" /\ call.inst # NULL /\ call.frames = 1
    /\ v.carrier_mix = 0 /\ v.clears = 1
    /\ v.noise_seed = <<35596, 16918>>

(* ------------------------------------------------------------------ *)
(* Filter state across parameter sets (under Spec)                      *)
(* ------------------------------------------------------------------ *)
\* the four filter-state arrays and the two envelope arrays
Filters(x) ==
    <<x.mod_svf_l, x.mod_svf_r, x.car_svf_l, x.car_svf_r, x.mod_env_l, x.mod_env_r>>

\* the next step sets a key that keeps the band topology: a gain, mix or
\* time key, or a band count that snaps to the stored one
KeepingSet ==
    /\ call'.op = "set" /\ call'.inst # NULL
    /\ \/ call'.key \in {"mod_gain", "mix", "carrier_mix", "attack", "release"}
       \/ /\ call'.key = "bands"
          /\ Bracket(Limit(FloatToInt(atof(call'.val)), 8, 32)) = v.bands

\* C13: a set of mod_gain, mix, carrier_mix, attack or release, or of a
\* band count that snaps to the stored one, leaves the four filter-state
\* arrays and the two envelope arrays as they were; they change only when
\* a block is processed, the band count changes or a state text is set.
C13_FiltersKept ==
    /\ [][KeepingSet => Filters(v') = Filters(v)]_vars
    /\ [][Filters(v') # Filters(v) =>
            \/ BlockStarts
            \/ call'.op = "set" /\ call'.key = "state"
            \/ call'.op = "set" /\ call'.key = "bands" /\ v'.bands # v.bands]_vars

\* after a block has advanced the filters, "16.9" was set for bands over a
\* stored 16 and the filters still hold what the block left
C13_Witness ==
    /\ ncalls = 2
    /\ call.op = "set" /\ call.inst # NULL /\ call.key = "bands"
    /\ call.val = Num(FALSE, 169, 1)
    /\ v.bands = 16 /\ v.clears = 0 /\ v.recalcs = 1
    /\ ~FiltersZero(v)

=============================================================================
